---- MODULE Spec2Model ----
(***************************************************************************)
(* Model of src/app.py, the Spotify playlist analyser: one run of main()   *)
(* (credential check, session construction, profile fetch, playlist        *)
(* listing, selection, paginated track fetch, batched artist genre lookup, *)
(* genre join, summary metrics and top-10 tables).                         *)
(*                                                                         *)
(* Strings are sequences of character codes (44 = ",", 32 = " "), so that  *)
(* ", ".join, str.split(", ") and sorted() are computed as Python computes *)
(* them.  Minutes are carried in hundredths (duration_min = 3.0 is 300).   *)
(***************************************************************************)
EXTENDS Integers, Sequences, FiniteSets, TLC

(***************************************************************************)
(* Bounds of the model.                                                    *)
(***************************************************************************)
MaxPages == 2
MaxItems == 3

(***************************************************************************)
(* Values and small helpers.                                               *)
(***************************************************************************)
Range(s) == {s[i] : i \in 1..Len(s)}

RECURSIVE SeqsUpTo(_, _)
SeqsUpTo(S, n) ==
  IF n = 0 THEN {<<>>}
  ELSE LET R == SeqsUpTo(S, n - 1)
       IN R \cup {Append(r, x) : r \in {q \in R : Len(q) = n - 1}, x \in S}

\* concatenation of a sequence of sequences (by halves)
RECURSIVE Flatten(_)
Flatten(ss) ==
  IF ss = <<>> THEN <<>>
  ELSE IF Len(ss) = 1 THEN ss[1]
  ELSE LET h == Len(ss) \div 2
       IN Flatten(SubSeq(ss, 1, h)) \o Flatten(SubSeq(ss, h + 1, Len(ss)))

Reverse(s) == [i \in 1..Len(s) |-> s[Len(s) + 1 - i]]

RECURSIVE SumSeq(_)
SumSeq(s) == IF s = <<>> THEN 0 ELSE Head(s) + SumSeq(Tail(s))

\* the elements of a finite set of integers in ascending order
SortedInts(S) ==
  IF S = {} THEN <<>>
  ELSE LET lo == CHOOSE x \in S : \A y \in S : x <= y
           hi == CHOOSE x \in S : \A y \in S : y <= x
       IN SelectSeq([i \in 1..(hi - lo + 1) |-> lo + i - 1], LAMBDA x : x \in S)

Indices(s) == [i \in 1..Len(s) |-> i]

\* first-occurrence order of the distinct elements of s
Distinct(s) ==
  LET firsts == SelectSeq(Indices(s), LAMBDA i : \A j \in 1..(i - 1) : s[j] # s[i])
  IN SubSeq([k \in 1..Len(firsts) |-> s[firsts[k]]], 1, Len(firsts))

Count(s, x) == Cardinality({i \in 1..Len(s) : s[i] = x})

(***************************************************************************)
(* Python string operations on code-point sequences.                       *)
(***************************************************************************)
Sep == <<44, 32>>

\* sep.join(parts) (by halves)
RECURSIVE Join(_, _)
Join(sep, parts) ==
  IF parts = <<>> THEN <<>>
  ELSE IF Len(parts) = 1 THEN parts[1]
  ELSE LET h == Len(parts) \div 2
       IN Join(sep, SubSeq(parts, 1, h)) \o sep \o
          Join(sep, SubSeq(parts, h + 1, Len(parts)))

\* s.split(sep) for a separator that cannot overlap itself, as ", ": the
\* string is cut at every occurrence of sep; "" splits to [""]
Split(s, sep) ==
  LET at == SelectSeq(Indices(s),
                      LAMBDA i : i + Len(sep) - 1 <= Len(s) /\
                                 SubSeq(s, i, i + Len(sep) - 1) = sep)
      from(k) == IF k = 1 THEN 1 ELSE at[k - 1] + Len(sep)
      to(k) == IF k = Len(at) + 1 THEN Len(s) ELSE at[k] - 1
  IN SubSeq([k \in 1..(Len(at) + 1) |-> SubSeq(s, from(k), to(k))], 1, Len(at) + 1)

\* a < b for Python str: code point order, a proper prefix is smaller
RECURSIVE StrLess(_, _)
StrLess(a, b) ==
  IF b = <<>> THEN FALSE
  ELSE IF a = <<>> THEN TRUE
  ELSE IF Head(a) # Head(b) THEN Head(a) < Head(b)
  ELSE StrLess(Tail(a), Tail(b))

\* sorted(set(xs)) for a set of strings
RECURSIVE SortedSet(_)
SortedSet(S) ==
  IF S = {} THEN <<>>
  ELSE LET m == CHOOSE x \in S : \A y \in S \ {x} : StrLess(x, y)
       IN <<m>> \o SortedSet(S \ {m})

(***************************************************************************)
(* Encoding of Python's None.  None and "" are both falsy in the code, so  *)
(* an absent id is NoId, an absent name is the empty string, an absent     *)
(* number is NullInt; a float NaN (pandas' missing number) is NaN; a None  *)
(* genre is NullStr (a string no join can produce: code 0 never occurs).   *)
(***************************************************************************)
NoId == 0
NullInt == 0 - 1
NaN == 0 - 2
NullStr == <<0>>

(***************************************************************************)
(* The upstream service: what it may answer.  The account has two          *)
(* playlists: the items of playlist 1 are tracks with up to two artists    *)
(* (one name contains ", ", one artist has no id) and removed tracks; the  *)
(* items of playlist 2 are tracks with WideWidth artists each, so that     *)
(* more than batch_size distinct artists and more than ten distinct names  *)
(* and genre tags occur.                                                   *)
(***************************************************************************)
WideWidth == 30
WideBase == 100

ArtistName(aid) ==
  IF aid = 1 THEN <<97>>
  ELSE IF aid = 2 THEN <<98>>
  ELSE IF aid = 3 THEN <<116, 44, 32, 99>>
  ELSE <<300 + aid>>

\* artist 3 is unknown to the service
ServiceKnows(aid) == aid # 3

\* genres the service reports for an artist id
ServiceGenres(aid) ==
  IF aid = 1 THEN <<<<114, 111>>>>
  ELSE IF aid = 2 THEN <<<<114, 111>>, <<112, 117>>, <<112, 111>>>>
  ELSE IF aid = 3 THEN <<>>
  ELSE IF aid % 13 = 0 THEN <<>>
  ELSE <<<<103, 64 + (aid % 13)>>>>

Artist(aid) == [id |-> aid, name |-> ArtistName(aid)]

ArtistRun(from, n) == [i \in 1..n |-> Artist(from + i - 1)]

TrackObj(tid, artists, ms, pop) ==
  [id |-> tid, name |-> <<200 + tid>>, artists |-> artists,
   album |-> <<250 + tid>>, duration_ms |-> ms, popularity |-> pop]

\* a playlist item is <<>> (track is null: removed) or <<track>>
NarrowItems ==
  { <<>>,
    <<TrackObj(1, <<Artist(2), Artist(1)>>, 180000, 50)>>,
    <<TrackObj(2, <<Artist(3), [id |-> NoId, name |-> <<98>>]>>, NullInt, NullInt)>>,
    <<TrackObj(3, <<>>, 240300, 10)>> }

WideItems ==
  { <<TrackObj(5, ArtistRun(WideBase + 1, WideWidth), 300, 30)>>,
    <<TrackObj(6, ArtistRun(WideBase + 21, WideWidth), NullInt, NullInt)>>,
    <<TrackObj(7, ArtistRun(WideBase + 46, WideWidth), 60000, 90)>> }

Items(playlist_id) == IF playlist_id = 2 THEN WideItems ELSE NarrowItems

\* the pages the service may answer with when it has served so many items:
\* a page is empty only if it is the only page, of an empty playlist
PageContents(playlist_id, so_far) ==
  {p \in SeqsUpTo(Items(playlist_id), MaxItems - so_far) : p = <<>> => so_far = 0}

PlaylistItem(n) == [id |-> n, name |-> <<80>>, total |-> n]

\* the account has no playlist, or playlists 1 and 2
Listings == {<<>>, <<PlaylistItem(1), PlaylistItem(2)>>}

\* the orders in which iterating a Python set may yield its elements (the
\* order depends on the hashes): the ascending and the descending order
\* stand for them
SetOrders(S) == {SortedInts(S), Reverse(SortedInts(S))}

(***************************************************************************)
(* Pure functions of the code.                                             *)
(***************************************************************************)
Min(a, b) == IF a < b THEN a ELSE b

\* Python truthiness of an optional string: None and "" are falsy
Falsy(v) == v = NullStr \/ v = <<>>

\* get_spotify_client with credentials tested against None only
get_spotify_client_none_only(id, secret, uri, throws) ==
  IF id = NullStr \/ secret = NullStr \/ uri = NullStr
  THEN [sp |-> "none", msg |-> <<"error:credentials">>]
  ELSE IF throws
  THEN [sp |-> "none", msg |-> <<"error:authenticate">>]
  ELSE [sp |-> "session", msg |-> <<>>]

\* get_spotify_client: "none" or "session", and the message shown
get_spotify_client(id, secret, uri, throws) ==
  IF Falsy(id) \/ Falsy(secret) \/ Falsy(uri)
  THEN [sp |-> "none", msg |-> <<"error:credentials">>]
  ELSE IF throws
  THEN [sp |-> "none", msg |-> <<"error:authenticate">>]
  ELSE [sp |-> "session", msg |-> <<>>]

\* fetch_playlists: one summary per listed item
fetch_playlists(items) ==
  [i \in 1..Len(items) |->
     [id |-> items[i].id, name |-> items[i].name, tracks_total |-> items[i].total]]

Label(p) == <<p.name, p.tracks_total>>

\* labels.index(choice): position of the first equal label
LabelIndex(labels, choice) ==
  CHOOSE i \in 1..Len(labels) :
    labels[i] = choice /\ \A j \in 1..(i - 1) : labels[j] # choice

IsNamed(a) == a.name # <<>>
HasId(a) == a.id # NoId

\* the record appended for one non-null track
TrackRecord(track) ==
  LET named == SelectSeq(track.artists, IsNamed)
      withId == SelectSeq(track.artists, HasId)
  IN [id |-> track.id,
      name |-> track.name,
      artist |-> Join(Sep, [i \in 1..Len(named) |-> named[i].name]),
      artist_ids |-> [i \in 1..Len(withId) |-> withId[i].id],
      album |-> track.album,
      duration_ms |-> track.duration_ms,
      popularity |-> track.popularity]

\* the loop over a page's items with break in place of continue
RECURSIVE PageTracksStopAtNull(_)
PageTracksStopAtNull(items) ==
  IF items = <<>> THEN <<>>
  ELSE IF Head(items) = <<>> THEN <<>>
  ELSE <<TrackRecord(Head(items)[1])>> \o PageTracksStopAtNull(Tail(items))

\* the for loop over one page's items: a null track is skipped
RECURSIVE PageTracks(_)
PageTracks(items) ==
  IF items = <<>> THEN <<>>
  ELSE IF Head(items) = <<>> THEN PageTracks(Tail(items))
  ELSE <<TrackRecord(Head(items)[1])>> \o PageTracks(Tail(items))

\* round(n / d) to the nearest integer, ties to even (numpy rounding)
RoundHalfEven(n, d) ==
  LET q == n \div d
      r == n % d
  IN IF 2 * r < d THEN q
     ELSE IF 2 * r > d THEN q + 1
     ELSE IF q % 2 = 0 THEN q ELSE q + 1

\* (duration_ms / 60000).round(2), in hundredths of a minute
DurationMin(ms) == IF ms = NullInt THEN NaN ELSE RoundHalfEven(ms, 600)

WithDuration(t) ==
  [id |-> t.id, name |-> t.name, artist |-> t.artist, artist_ids |-> t.artist_ids,
   album |-> t.album, duration_ms |-> t.duration_ms, popularity |-> t.popularity,
   duration_min |-> DurationMin(t.duration_ms)]

WithGenre(r, g) ==
  [id |-> r.id, name |-> r.name, artist |-> r.artist, artist_ids |-> r.artist_ids,
   album |-> r.album, duration_ms |-> r.duration_ms, popularity |-> r.popularity,
   duration_min |-> r.duration_min, genre |-> g]

DropArtistIds(r) ==
  [id |-> r.id, name |-> r.name, artist |-> r.artist,
   album |-> r.album, duration_ms |-> r.duration_ms, popularity |-> r.popularity,
   duration_min |-> r.duration_min, genre |-> r.genre]

\* {aid for sub in artist_id_lists for aid in sub if aid}
AllArtistIds(rows) == (UNION {Range(rows[i].artist_ids) : i \in 1..Len(rows)}) \ {NoId}

batch_size == 50

\* the slice taken one element too long
BatchOverlap(list, start) == SubSeq(list, start + 1, Min(start + batch_size + 1, Len(list)))

\* artist_ids_list[start : start + batch_size]
Batch(list, start) == SubSeq(list, start + 1, Min(start + batch_size, Len(list)))

\* break in place of continue after a rejected batch
AfterRejectedBreak(start, len) == len

\* the start of the next iteration of range(0, len, batch_size) after a
\* rejected batch (continue)
AfterRejected(start, len) == start + batch_size

\* the service's answer to a successful artists(batch) call; an id it does
\* not know is answered with a null artist object
ArtistsResponse(batch) ==
  [i \in 1..Len(batch) |->
     IF ~ServiceKnows(batch[i]) THEN [id |-> NoId, genres |-> <<>>]
     ELSE [id |-> batch[i], genres |-> ServiceGenres(batch[i])]]

\* the loop over a response: null artists and artists without id are skipped
StoreGenres(gm, artists) ==
  LET stored == {i \in 1..Len(artists) : artists[i].id # NoId}
      last(x) == CHOOSE i \in stored :
                   artists[i].id = x /\ \A j \in stored : artists[j].id = x => j <= i
  IN [x \in DOMAIN gm \cup {artists[i].id : i \in stored} |->
        IF \E i \in stored : artists[i].id = x THEN artists[last(x)].genres ELSE gm[x]]

\* join_genres without sorted(set(...))
join_genres_unsorted(artist_ids_row, gm) ==
  IF artist_ids_row = <<>> THEN NullStr
  ELSE LET collected ==
             Flatten([i \in 1..Len(artist_ids_row) |->
                        IF artist_ids_row[i] \in DOMAIN gm
                        THEN gm[artist_ids_row[i]] ELSE <<>>])
       IN IF collected = <<>> THEN NullStr
          ELSE Join(Sep, collected)

\* join_genres
join_genres(artist_ids_row, gm) ==
  IF artist_ids_row = <<>> THEN NullStr
  ELSE LET collected ==
             Flatten([i \in 1..Len(artist_ids_row) |->
                        IF artist_ids_row[i] \in DOMAIN gm
                        THEN gm[artist_ids_row[i]] ELSE <<>>])
       IN IF collected = <<>> THEN NullStr
          ELSE Join(Sep, SortedSet(Range(collected)))

\* Series.sum(): missing values are skipped, the sum of nothing is 0
SeriesSum(xs) == SumSeq(SelectSeq(xs, LAMBDA x : x # NaN))

\* Series.dropna().mean() in tenths: NaN when nothing is left
SeriesMeanTenths(xs) ==
  LET kept == SelectSeq(xs, LAMBDA x : x # NullInt)
  IN IF kept = <<>> THEN NaN ELSE RoundHalfEven(10 * SumSeq(kept), Len(kept))

\* the "Total length (hours)" metric: f"{total_minutes / 60:.2f}" or "N/A"
HoursMetric(total_minutes) ==
  IF total_minutes # NaN
  THEN [na |-> FALSE, value |-> RoundHalfEven(total_minutes, 60)]
  ELSE [na |-> TRUE, value |-> 0]

\* the "Average popularity" metric
PopularityMetric(avg) ==
  IF avg # NaN THEN [na |-> FALSE, value |-> avg] ELSE [na |-> TRUE, value |-> 0]

\* Series.str.split(", ", expand=True).stack(): the parts of every row, row
\* by row
SplitStack(strs) == Flatten([i \in 1..Len(strs) |-> Split(strs[i], Sep)])

CountEach(keys, flat) ==
  SubSeq([i \in 1..Len(keys) |-> [key |-> keys[i], count |-> Count(flat, keys[i])]],
         1, Len(keys))

MaxCount(entries) ==
  IF entries = <<>> THEN 0
  ELSE LET cs == {entries[i].count : i \in 1..Len(entries)}
       IN CHOOSE c \in cs : \A d \in cs : d <= c

\* entries with count c first, then those with c - 1, ..., each level in the
\* order of entries
RECURSIVE ByLevel(_, _)
ByLevel(entries, c) ==
  IF c = 0 THEN <<>>
  ELSE SelectSeq(entries, LAMBDA e : e.count = c) \o ByLevel(entries, c - 1)

\* Series.value_counts(): the distinct values with their counts, by
\* descending count.  pandas sorts the counts with numpy's quicksort, which
\* is not stable: the order of equal counts is unspecified.  ties selects
\* one of two possible outcomes: equal counts in first-occurrence order
\* ("first") or in the reverse of it ("last")
ValueCounts(flat, ties) ==
  LET entries == CountEach(Distinct(flat), flat)
  IN ByLevel(IF ties = "first" THEN entries ELSE Reverse(entries), MaxCount(entries))

TopN == 10

\* value_counts() without .head(10)
HeadAll(s) == s

\* .head(10)
Head10(s) == SubSeq(s, 1, Min(TopN, Len(s)))

(***************************************************************************)
(* State of one run of main().                                             *)
(***************************************************************************)
VARIABLES
  env,              \* CLIENT_ID, CLIENT_SECRET, REDIRECT_URI
  oauth_throws,     \* whether constructing the session handle throws
  pc,               \* position in main()
  sp_user,          \* "unset", "none" or "session"
  ui,               \* what has been rendered, in order
  calls,            \* upstream API requests issued, in order
  playlists,        \* main's playlists
  selected,         \* <<>> or <<the selected playlist>>
  served,           \* the pages the service has answered with, in order
  page_failed,      \* a page request of the track fetch has failed
  tracks,           \* fetch_playlist_tracks' tracks
  df,               \* the data frame's rows
  artist_ids_list,  \* list(all_artist_ids)
  start,            \* the batch loop's start
  rejected,         \* the starts of the batches the service rejected
  genres_map,       \* artist id -> genre list
  view              \* <<>> or <<the computed results view>>

vars == <<env, oauth_throws, pc, sp_user, ui, calls, playlists, selected,
          served, page_failed, tracks, df, artist_ids_list, start, rejected,
          genres_map, view>>

CredValues == {NullStr, <<>>, <<120>>}

EmptyMap == [x \in {} |-> <<>>]

Call(op, ids) == [op |-> op, ids |-> ids]

Init ==
  /\ env \in [id : CredValues, secret : CredValues, uri : CredValues]
  /\ oauth_throws \in BOOLEAN
  /\ pc = "client"
  /\ sp_user = "unset"
  /\ ui = <<"title">>
  /\ calls = <<>>
  /\ playlists = <<>>
  /\ selected = <<>>
  /\ served = <<>>
  /\ page_failed = FALSE
  /\ tracks = <<>>
  /\ df = <<>>
  /\ artist_ids_list = <<>>
  /\ start = 0
  /\ rejected = {}
  /\ genres_map = EmptyMap
  /\ view = <<>>

\* main, lines 162-164: no session => st.stop()
AfterClient(sp) == IF sp = "none" THEN "stopped" ELSE "profile"

GetClient ==
  /\ pc = "client"
  /\ LET r == get_spotify_client(env.id, env.secret, env.uri, oauth_throws)
     IN /\ sp_user' = r.sp
        /\ ui' = ui \o r.msg
        /\ pc' = AfterClient(r.sp)
  /\ UNCHANGED <<env, oauth_throws, calls, playlists, selected, served,
                 page_failed, tracks, df, artist_ids_list, start, rejected,
                 genres_map, view>>

\* main, lines 166-172
FetchProfile ==
  /\ pc = "profile"
  /\ calls' = Append(calls, Call("current_user", <<>>))
  /\ \E ok \in BOOLEAN :
       IF ok THEN ui' = Append(ui, "success:logged_in") /\ pc' = "playlists"
       ELSE ui' = Append(ui, "error:profile") /\ pc' = "stopped"
  /\ UNCHANGED <<env, oauth_throws, sp_user, playlists, selected, served,
                 page_failed, tracks, df, artist_ids_list, start, rejected,
                 genres_map, view>>

\* main, lines 175-177: no playlists => warning and st.stop()
AfterListing(pls) == IF pls = <<>> THEN "stopped" ELSE "select"

\* main, lines 174-177
FetchPlaylists ==
  /\ pc = "playlists"
  /\ calls' = Append(calls, Call("current_user_playlists", <<>>))
  /\ \/ /\ pc' = "raised"
        /\ UNCHANGED <<playlists, ui>>
     \/ \E items \in Listings :
          /\ playlists' = fetch_playlists(items)
          /\ pc' = AfterListing(playlists')
          /\ ui' = IF pc' = "stopped" THEN Append(ui, "warning:no_playlists") ELSE ui
  /\ UNCHANGED <<env, oauth_throws, sp_user, selected, served,
                 page_failed, tracks, df, artist_ids_list, start, rejected,
                 genres_map, view>>

\* main, lines 179-185
SelectPlaylist ==
  /\ pc = "select"
  /\ LET labels == [i \in 1..Len(playlists) |-> Label(playlists[i])]
     IN \E choice \in Range(labels) :
          selected' = <<playlists[LabelIndex(labels, choice)]>>
  /\ ui' = Append(ui, "selected")
  /\ pc' = "fetch"
  /\ UNCHANGED <<env, oauth_throws, sp_user, calls, playlists, served,
                 page_failed, tracks, df, artist_ids_list, start, rejected,
                 genres_map, view>>

\* a page request of fetch_playlist_tracks raises: nothing in main catches
\* it, the exception leaves main
PageRaises ==
  /\ page_failed' = TRUE
  /\ pc' = "raised"
  /\ UNCHANGED <<served, tracks>>

\* a page request answers: its items are appended, then next decides
PageAnswers ==
  \E items \in PageContents(selected[1].id, Len(Flatten(served))), next \in BOOLEAN :
    /\ next => /\ Len(served) + 1 < MaxPages
               /\ items # <<>>
               /\ Len(Flatten(served)) + Len(items) < MaxItems
    /\ served' = Append(served, items)
    /\ tracks' = tracks \o PageTracks(items)
    /\ pc' = IF next THEN "next" ELSE "fetched"
    /\ UNCHANGED page_failed

\* fetch_playlist_tracks, line 60 and the first pass of the loop
FetchFirstPage ==
  /\ pc = "fetch"
  /\ calls' = Append(calls, Call("playlist_tracks", <<selected[1].id>>))
  /\ (PageRaises \/ PageAnswers)
  /\ UNCHANGED <<env, oauth_throws, sp_user, ui, playlists, selected,
                 df, artist_ids_list, start, rejected, genres_map, view>>

\* fetch_playlist_tracks, line 85 and the next pass of the loop
FetchNextPage ==
  /\ pc = "next"
  /\ calls' = Append(calls, Call("next", <<>>))
  /\ (PageRaises \/ PageAnswers)
  /\ UNCHANGED <<env, oauth_throws, sp_user, ui, playlists, selected,
                 df, artist_ids_list, start, rejected, genres_map, view>>

\* main without the check for an empty track list
AfterFetchNoCheck(trks) == "enrich"

\* main, lines 189-191: no tracks => warning and st.stop()
AfterFetch(trks) == IF trks = <<>> THEN "stopped" ELSE "enrich"

CheckTracks ==
  /\ pc = "fetched"
  /\ pc' = AfterFetch(tracks)
  /\ ui' = IF pc' = "stopped" THEN Append(ui, "warning:no_tracks") ELSE ui
  /\ UNCHANGED <<env, oauth_throws, sp_user, calls, playlists, selected,
                 served, page_failed, tracks, df, artist_ids_list, start, rejected,
                 genres_map, view>>

\* add_genres_if_available, lines 93-113
EnrichStart ==
  /\ pc = "enrich"
  /\ LET rows == [i \in 1..Len(tracks) |-> WithDuration(tracks[i])]
         ids == AllArtistIds(rows)
     IN IF ids = {}
        THEN /\ df' = [i \in 1..Len(rows) |-> WithGenre(rows[i], NullStr)]
             /\ pc' = "render"
             /\ UNCHANGED artist_ids_list
        ELSE /\ df' = rows
             /\ artist_ids_list' \in SetOrders(ids)
             /\ pc' = "batch"
  /\ UNCHANGED <<env, oauth_throws, sp_user, ui, calls, playlists, selected,
                 served, page_failed, tracks, start, rejected, genres_map, view>>

\* add_genres_if_available, lines 115-133: one pass of the batch loop
BatchLookup ==
  /\ pc = "batch"
  /\ LET batch == Batch(artist_ids_list, start)
     IN /\ calls' = Append(calls, Call("artists", batch))
        /\ \/ /\ rejected' = rejected \cup {start}
              /\ ui' = Append(ui, "warning:artist_batch")
              /\ start' = AfterRejected(start, Len(artist_ids_list))
              /\ UNCHANGED genres_map
           \/ /\ genres_map' = StoreGenres(genres_map, ArtistsResponse(batch))
              /\ start' = start + batch_size
              /\ UNCHANGED <<rejected, ui>>
  /\ pc' = IF start' < Len(artist_ids_list) THEN "batch" ELSE "join"
  /\ UNCHANGED <<env, oauth_throws, sp_user, playlists, selected, served,
                 page_failed, tracks, df, artist_ids_list, view>>

\* add_genres_if_available, lines 135-153
JoinGenres ==
  /\ pc = "join"
  /\ df' = [i \in 1..Len(df) |->
              DropArtistIds(WithGenre(df[i], join_genres(df[i].artist_ids, genres_map)))]
  /\ pc' = "render"
  /\ UNCHANGED <<env, oauth_throws, sp_user, ui, calls, playlists, selected,
                 served, page_failed, tracks, artist_ids_list, start, rejected,
                 genres_map, view>>

Column(rows, f) == [i \in 1..Len(rows) |-> rows[i][f]]

\* main, lines 195-250
Render ==
  /\ pc = "render"
  /\ LET total_minutes == SeriesSum(Column(df, "duration_min"))
         avg_popularity == SeriesMeanTenths(Column(df, "popularity"))
         genres == SelectSeq(Column(df, "genre"), LAMBDA g : g # NullStr)
     IN \E ties \in {"first", "last"} :
          LET ta == ValueCounts(SplitStack(Column(df, "artist")), ties)
              tg == ValueCounts(SplitStack(genres), ties)
          IN
          /\ view' = <<[total_tracks |-> Len(df),
                        total_minutes |-> total_minutes,
                        total_length |-> HoursMetric(total_minutes),
                        avg_popularity |-> PopularityMetric(avg_popularity),
                        table |-> df,
                        top_artists |-> Head10(ta),
                        top_genres |-> IF genres # <<>> THEN Head10(tg) ELSE <<>>]>>
          /\ ui' = ui \o <<"metrics", "table", "chart:popularity", "chart:top_artists",
                           IF genres # <<>> THEN "chart:top_genres" ELSE "info:no_genre">>
  /\ pc' = "done"
  /\ UNCHANGED <<env, oauth_throws, sp_user, calls, playlists, selected,
                 served, page_failed, tracks, df, artist_ids_list, start, rejected,
                 genres_map>>

Next ==
  \/ GetClient
  \/ FetchProfile
  \/ FetchPlaylists
  \/ SelectPlaylist
  \/ FetchFirstPage
  \/ FetchNextPage
  \/ CheckTracks
  \/ EnrichStart
  \/ BatchLookup
  \/ JoinGenres
  \/ Render

Spec == Init /\ [][Next]_vars

(***************************************************************************)
(* Properties.                                                             *)
(***************************************************************************)
IsArtistsCall(c) == c.op = "artists"
ArtistCalls == SelectSeq(calls, IsArtistsCall)
IsTrackCall(c) == c.op \in {"playlist_tracks", "next"}

\* the playlist's non-null tracks, in item order across the pages served
SourceTracks ==
  LET present == SelectSeq(Flatten(served), LAMBDA it : it # <<>>)
  IN [i \in 1..Len(present) |-> present[i][1]]

FetchReturned == pc \in {"fetched", "enrich", "batch", "join", "render", "done"}
\* add_genres_if_available has just returned
EnrichReturned == pc = "render"

SameTrack(rec, track) ==
  /\ rec.id = track.id
  /\ rec.name = track.name
  /\ rec.album = track.album
  /\ rec.duration_ms = track.duration_ms
  /\ rec.popularity = track.popularity

\* C1: after fetch_playlist_tracks and after add_genres_if_available there is
\* exactly one record per playlist item whose track is non-null, in the item
\* order across all pages served (nothing duplicated or dropped at a page
\* boundary, a null track adds no record and does not end the pagination).
C1_OneRecordPerTrack ==
  /\ FetchReturned =>
       /\ Len(tracks) = Len(SourceTracks)
       /\ \A i \in 1..Len(tracks) : SameTrack(tracks[i], SourceTracks[i])
  /\ EnrichReturned =>
       /\ Len(df) = Len(SourceTracks)
       /\ \A i \in 1..Len(df) : SameTrack(df[i], SourceTracks[i])

C1_Witness ==
  /\ pc = "render"
  /\ Len(served) = 2
  /\ Len(served[1]) = 2 /\ served[1][1] = <<>> /\ served[1][2] # <<>>
  /\ Len(served[2]) = 1 /\ served[2][1] # <<>>
  /\ Len(df) = 2

\* the ids of the batches that were looked up successfully / rejected
BatchStarts == {k * batch_size : k \in 0..((Len(artist_ids_list) - 1) \div batch_size)}
IdsOfBatch(s) ==
  {artist_ids_list[i] : i \in (s + 1)..Min(s + batch_size, Len(artist_ids_list))}
RejectedIds == UNION {IdsOfBatch(s) : s \in rejected}
SuccessfulIds == UNION {IdsOfBatch(s) : s \in BatchStarts \ rejected}

\* the i-th smallest string of U, for i in 1..|U|
RankSorted(U) ==
  [i \in 1..Cardinality(U) |->
     CHOOSE x \in U : Cardinality({y \in U : StrLess(y, x)}) = i - 1]

\* the genre string the service's data gives a track whose artists are ids
ServiceGenre(ids) ==
  LET U == UNION {Range(ServiceGenres(a)) : a \in {x \in Range(ids) : ServiceKnows(x)}}
  IN IF U = {} THEN NullStr ELSE Join(Sep, RankSorted(U))

\* C2: when the service rejects an artist batch, every remaining batch is
\* still looked up and enrichment returns; only the artists of a rejected
\* batch are without genre data, and a track all of whose artist ids were in
\* successful batches has the genre string it has when no batch fails.
C2_RejectedBatchIsolated ==
  (EnrichReturned /\ rejected # {}) =>
     /\ Len(ArtistCalls) = Cardinality(BatchStarts)
     /\ \A s \in BatchStarts : \E k \in 1..Len(ArtistCalls) :
          Range(ArtistCalls[k].ids) = IdsOfBatch(s)
     /\ \A a \in RejectedIds : a \notin DOMAIN genres_map
     /\ \A a \in SuccessfulIds : ServiceKnows(a) =>
          a \in DOMAIN genres_map /\ genres_map[a] = ServiceGenres(a)
     /\ Len(df) = Len(tracks)
     /\ \A i \in 1..Len(tracks) :
          Range(tracks[i].artist_ids) \subseteq SuccessfulIds =>
            df[i].genre = ServiceGenre(tracks[i].artist_ids)

C2_Witness ==
  /\ pc = "render"
  /\ rejected = {batch_size}
  /\ \E i \in 1..Len(tracks) :
       /\ tracks[i].artist_ids # <<>>
       /\ Range(tracks[i].artist_ids) \subseteq SuccessfulIds
       /\ df[i].genre # NullStr
  /\ \E i \in 1..Len(tracks) : Range(tracks[i].artist_ids) \cap RejectedIds # {}

\* C3: when a page request of the track fetch fails, the failure ends in a
\* handled error outcome: the exception does not leave main, an error is
\* shown, and nothing of the results view is rendered.
C3_PageFailureHandled ==
  page_failed =>
     /\ pc # "raised"
     /\ view = <<>>
     /\ \E i \in 1..Len(ui) : ui[i] = "error:analysis"

CredentialMissing == Falsy(env.id) \/ Falsy(env.secret) \/ Falsy(env.uri)

\* C4: when a credential is absent or empty, or constructing the session
\* handle throws, get_spotify_client yields no session, and with no session
\* main halts without ever issuing an upstream API request.
C4_NoSessionNoCall ==
  /\ (pc # "client" /\ (CredentialMissing \/ oauth_throws)) => sp_user = "none"
  /\ sp_user = "none" => pc = "stopped" /\ calls = <<>>

C4_Witness ==
  /\ pc = "stopped"
  /\ sp_user = "none"
  /\ oauth_throws
  /\ ~CredentialMissing
  /\ ui[Len(ui)] = "error:authenticate"

Rotate(s, k) == [i \in 1..Len(s) |-> s[((i - 1 + k) % Len(s)) + 1]]

\* some reorderings of a sequence
SeqOrders(s) ==
  IF s = <<>> THEN {<<>>} ELSE {Reverse(s), Rotate(s, 1), Reverse(Rotate(s, 1))}

\* the union of the index's genre lists over a track's artist ids
GenreUnion(ids, gm) == UNION {Range(gm[a]) : a \in Range(ids) \cap DOMAIN gm}

\* C5: a track's genre string is the ascending, duplicate-free, ", "-joined
\* union of the genre lists its artist ids have in the index, null when the
\* union is empty or the track has no artist ids, and the same for every
\* order of the track's artist ids.
C5_GenreString ==
  EnrichReturned =>
    \A i \in 1..Len(df) :
      LET ids == tracks[i].artist_ids
          U == GenreUnion(ids, genres_map)
      IN /\ df[i].genre = IF U = {} THEN NullStr ELSE Join(Sep, RankSorted(U))
         /\ \A p \in SeqOrders(ids) : join_genres(p, genres_map) = df[i].genre

C5_Witness ==
  /\ pc = "render"
  /\ \E i \in 1..Len(df) :
       /\ tracks[i].artist_ids = <<2, 1>>
       /\ df[i].genre = <<112, 111, 44, 32, 112, 117, 44, 32, 114, 111>>
  /\ \E i \in 1..Len(df) : tracks[i].artist_ids # <<>> /\ df[i].genre = NullStr

\* C6: total_minutes is the sum of duration_min over the tracks whose
\* duration is not null, and when every duration is null the total length
\* is shown as "N/A".
C6_TotalMinutes ==
  pc = "done" =>
    LET durs == SelectSeq(Column(view[1].table, "duration_min"), LAMBDA d : d # NaN)
    IN /\ view[1].total_minutes = SumSeq(durs)
       /\ durs = <<>> => view[1].total_length.na

\* ceil(n / d)
CeilDiv(n, d) == (n + d - 1) \div d

\* C7: with n distinct non-null artist ids in the track set, enrichment
\* issues exactly ceil(n / 50) artist lookups, each with 1 to 50 ids, and
\* every distinct id is in exactly one of them; with n = 0 no lookup is
\* issued and every genre is null.
C7_BatchPartition ==
  EnrichReturned =>
    LET ids == AllArtistIds(tracks)
        n == Cardinality(ids)
    IN /\ Len(ArtistCalls) = CeilDiv(n, 50)
       /\ \A k \in 1..Len(ArtistCalls) :
            Len(ArtistCalls[k].ids) >= 1 /\ Len(ArtistCalls[k].ids) <= 50
       /\ LET requested == Flatten(Column(ArtistCalls, "ids"))
          IN \A a \in ids : Count(requested, a) = 1
       /\ n = 0 => \A i \in 1..Len(df) : df[i].genre = NullStr

C7_Witness ==
  /\ pc = "render"
  /\ Cardinality(AllArtistIds(tracks)) > 50
  /\ Len(tracks) = 3
  /\ Len(ArtistCalls) = 2
  /\ Len(ArtistCalls[1].ids) = 50
  /\ Len(ArtistCalls[2].ids) = Cardinality(AllArtistIds(tracks)) - 50

HasOp(ops) == \E i \in 1..Len(calls) : calls[i].op \in ops
Rendered == \E i \in 1..Len(ui) :
              ui[i] \in {"metrics", "table", "chart:popularity", "chart:top_artists",
                         "chart:top_genres", "info:no_genre"}

\* C8: an empty result halts the flow with an informational message before
\* any later stage: with an empty playlist listing no track fetch is ever
\* issued; when the track fetch yields no record, no artist lookup is issued
\* and nothing is aggregated or charted.
C8_EmptyHalts ==
  /\ playlists = <<>> =>
       /\ ~HasOp({"playlist_tracks", "next", "artists"})
       /\ pc \notin {"select", "fetch", "next", "fetched", "enrich", "batch", "join",
                     "render", "done"}
       /\ view = <<>> /\ ~Rendered
  /\ (pc \notin {"playlists", "raised"} /\ HasOp({"current_user_playlists"})
        /\ playlists = <<>>) =>
       pc = "stopped" /\ ui[Len(ui)] = "warning:no_playlists"
  /\ (FetchReturned \/ pc = "stopped") /\ served # <<>> /\ tracks = <<>> =>
       /\ pc \in {"fetched", "stopped"}
       /\ pc = "stopped" => ui[Len(ui)] = "warning:no_tracks"
       /\ ~HasOp({"artists"})
       /\ df = <<>> /\ view = <<>> /\ ~Rendered

C8_Witness ==
  /\ pc = "stopped"
  /\ Len(served) = 2
  /\ served[1] # <<>>
  /\ tracks = <<>>
  /\ ui[Len(ui)] = "warning:no_tracks"

\* the flattened split sequences the top tables are computed from
ArtistParts == SplitStack(Column(view[1].table, "artist"))
GenreParts ==
  SplitStack(SelectSeq(Column(view[1].table, "genre"), LAMBDA g : g # NullStr))

FirstAt(flat, x) == CHOOSE i \in 1..Len(flat) : flat[i] = x /\ \A j \in 1..(i - 1) : flat[j] # x

\* at most ten entries, each a distinct value with its occurrence count, the
\* highest counts, by descending count
TopTable(top, flat) ==
  /\ Len(top) <= 10
  /\ Len(top) = Min(10, Cardinality(Range(flat)))
  /\ \A i \in 1..Len(top) : top[i].count = Count(flat, top[i].key) /\ top[i].count >= 1
  /\ \A i, j \in 1..Len(top) : i < j =>
       top[i].key # top[j].key /\ top[i].count >= top[j].count
  /\ \A x \in Range(flat) :
       (\A i \in 1..Len(top) : top[i].key # x) => Count(flat, x) <= top[Len(top)].count

\* equal counts in the order of first occurrence
TiesByFirstOccurrence(top, flat) ==
  \A i, j \in 1..Len(top) :
    (i < j /\ top[i].count = top[j].count) =>
      FirstAt(flat, top[i].key) < FirstAt(flat, top[j].key)

\* C9 (as claimed): top_artists and top_genres have at most 10 entries, the
\* highest occurrence counts over the flattened split sequence, by descending
\* count, equal counts by first occurrence; null genres contribute nothing.
C9_TopTablesTiesFirst ==
  pc = "done" =>
    /\ TopTable(view[1].top_artists, ArtistParts)
    /\ TiesByFirstOccurrence(view[1].top_artists, ArtistParts)
    /\ TopTable(view[1].top_genres, GenreParts)
    /\ TiesByFirstOccurrence(view[1].top_genres, GenreParts)

\* C9 (amended): top_artists and top_genres have at most 10 entries, the
\* highest occurrence counts over the flattened split sequence, by descending
\* count; the order of entries with equal counts, and which of them are kept
\* at the cut, is unspecified; null genres contribute nothing.
C9_TopTables ==
  pc = "done" =>
    /\ TopTable(view[1].top_artists, ArtistParts)
    /\ TopTable(view[1].top_genres, GenreParts)

C9_Witness ==
  /\ pc = "done"
  /\ Len(view[1].top_artists) = 10
  /\ Cardinality(Range(ArtistParts)) > 10
  /\ view[1].top_artists[1].count = 2
  /\ \E x \in Range(ArtistParts) : Count(ArtistParts, x) = 1
  /\ Len(view[1].top_genres) = 10
  /\ Cardinality(Range(GenreParts)) > 10
  /\ \E i \in 1..Len(view[1].table) : view[1].table[i].genre = NullStr

\* the names fetch_playlist_tracks joined for a track
JoinedNames(track) ==
  LET named == SelectSeq(track.artists, IsNamed)
  IN [i \in 1..Len(named) |-> named[i].name]

\* C10: splitting a track's artist string on ", " gives back exactly the names
\* that were joined, so a name's count in top_artists is the number of
\* (track, artist) occurrences of an artist with that name.
C10_ArtistRoundTrip ==
  pc = "done" =>
    /\ \A i \in 1..Len(view[1].table) :
         Split(view[1].table[i].artist, Sep) = JoinedNames(SourceTracks[i])
    /\ \A e \in Range(view[1].top_artists) :
         e.count = Count(Flatten([i \in 1..Len(SourceTracks) |->
                                    JoinedNames(SourceTracks[i])]), e.key)

====
